---- MODULE Spec2Model ----
(***************************************************************************)
(* makeSnapshot: the request pipeline of rootCmd.Run (validateConfig, the  *)
(* six steps, the polling loop) as a state machine.  The platform        *)
(* answers are the environment: every step draws its response from a       *)
(* small set.  Strings are sequences of chunks (a chunk is a character or  *)
(* a literal piece of text), so that concatenation and strings.TrimSpace   *)
(* are computed and not assumed.                                           *)
(***************************************************************************)
EXTENDS Integers, Sequences, FiniteSets, TLC

VARIABLES
    pc,                 \* position in Execute / rootCmd.Run
    exitCode,           \* process exit status, -1 while the process runs
    flags,              \* command line flag variables (configFile aside)
    cfgFile,            \* the configuration file as the file system holds it
    viper,              \* the settings viper answers GetString with
    bearerToken,        \* local of Run: bearerToken
    virtualMachineID,   \* local of Run: virtualMachineID
    snapshotActionID,   \* local of Run: snapshotActionID
    requestStatusURL,   \* local of Run: requestStatusURL
    trail,              \* history: the steps entered, by number
    response,           \* the HTTP response received last, in full
    events,             \* history: requests issued, responses received, sleeps
    out,                \* lines written through package log (trace and errors)
    sampleConfigFile,   \* generateConfig: the path of the --sampleConfig flag
    disk,               \* generateConfig: what the file system holds at that path
    fileOps             \* history: the os.Create and the writes attempted there

vars == <<pc, exitCode, flags, cfgFile, viper, bearerToken, virtualMachineID,
          snapshotActionID, requestStatusURL, trail, response, events, out,
          sampleConfigFile, disk, fileOps>>

\* what the generateConfig command works on; the root command leaves it alone
sample == <<sampleConfigFile, disk, fileOps>>

\* what no step writes once the settings are read, and the locals of Run
settings == <<flags, cfgFile, viper, sample>>
locals == <<bearerToken, virtualMachineID, snapshotActionID, requestStatusURL>>

-----------------------------------------------------------------------------
(* Bounds of the model *)

\* polls after which the model stops following a request that stays pending
MaxPolls == 3

\* entries of a resource listing, and of an action listing
MaxResources == 2
MaxActions == 2

-----------------------------------------------------------------------------
(* Strings *)

WhiteSpace == {" ", "\t"}

RECURSIVE TrimLeft(_)
TrimLeft(s) ==
    IF s # <<>> /\ Head(s) \in WhiteSpace THEN TrimLeft(Tail(s)) ELSE s

RECURSIVE TrimRight(_)
TrimRight(s) ==
    IF s # <<>> /\ s[Len(s)] \in WhiteSpace
    THEN TrimRight(SubSeq(s, 1, Len(s) - 1))
    ELSE s

TrimSpace(s) == TrimRight(TrimLeft(s))

\* mutant: the length is taken without strings.TrimSpace
ZeroLength_NoTrim(stringValue) == Len(stringValue) = 0

\* the condition under which exitOnEmptyString ends the process
ZeroLength(stringValue) == Len(TrimSpace(stringValue)) = 0

\* http.NewRequest returns a nil request when the URL does not parse
InvalidURLChunks == {"%zz"}
URLParses(url) == \A i \in 1..Len(url) : url[i] \notin InvalidURLChunks

-----------------------------------------------------------------------------
(* Program constants *)

version == <<"0.9.2">>
userAgent == <<"makeSnapShot ">> \o version
PollSeconds == 10
IDLength == 36

ConfigKeys == {"baseURL", "tenant", "domain", "userName", "password"}

\* mutant: a panic is recovered and the process leaves with status 0
ExitStatus_PanicZero(how) ==
    CASE how = "return" -> 0
      [] how = "fatal"  -> 1
      [] how = "panic"  -> 0

\* mutant: log.Fatalf leaves with status 0
ExitStatus_FatalZero(how) ==
    CASE how = "return" -> 0
      [] how = "fatal"  -> 0
      [] how = "panic"  -> 2

\* exit statuses: a return from Run, os.Exit(1) of log.Fatalf, a Go panic
ExitStatus(how) ==
    CASE how = "return" -> 0
      [] how = "fatal"  -> 1
      [] how = "panic"  -> 2

-----------------------------------------------------------------------------
(* Inputs: the command line and the configuration file *)

EmptySettings == [k \in ConfigKeys |-> <<>>]

GoodValue ==
    [baseURL  |-> <<"https://vra">>,
     tenant   |-> <<"tIsGoud">>,
     domain   |-> <<"vsphere.local">>,
     userName |-> <<"albert">>,
     password |-> <<"secret">>]

ConfigValues(k) ==
    {<<>>, <<" ", "\t">>, GoodValue[k]}
        \cup (IF k = "baseURL" THEN {<<"%zz">>} ELSE {})

\* what os.Stat and viper.ReadInConfig find at the configuration path
ConfigFiles ==
    {[stat |-> "file", parses |-> TRUE, values |-> v] :
        v \in {f \in [ConfigKeys -> UNION {ConfigValues(k) : k \in ConfigKeys}] :
                  \A k \in ConfigKeys : f[k] \in ConfigValues(k)}}
    \cup {[stat |-> s, parses |-> FALSE, values |-> EmptySettings] :
            s \in {"file", "dir", "missing", "error"}}

DomainFlags ==
    {[changed |-> FALSE, value |-> <<>>],
     [changed |-> TRUE,  value |-> <<" ">>],
     [changed |-> TRUE,  value |-> <<"corp">>]}

MachineNames == {<<"d", "b">>, <<"d", ".">>}

MachineNameFlags ==
    {[changed |-> FALSE, value |-> <<>>]}
        \cup {[changed |-> TRUE, value |-> m] : m \in MachineNames}

\* ignoreCase tells whether -i is on the command line: the readme describes
\* the option, init defines no flag of that name
Flags ==
    [domain : DomainFlags, dryRun : BOOLEAN, ignoreCase : BOOLEAN,
     keepExisting : BOOLEAN, machineName : MachineNameFlags, trace : BOOLEAN]

machineName == flags.machineName.value

-----------------------------------------------------------------------------
(* Logging and process exit *)

\* mutant: the line is logged whatever the trace flag
traceInfo_Always(o, info) == Append(o, info)

traceInfo(o, info) == IF flags.trace THEN Append(o, info) ELSE o

Exit(how) ==
    /\ pc' = "exit"
    /\ exitCode' = ExitStatus(how)

\* log.Fatalf: the message, then os.Exit(1)
Fatalf(o, msg) ==
    /\ out' = Append(o, msg)
    /\ Exit("fatal")

\* a run-time panic: the Go runtime prints the panic and exits with status 2
Panic(o, msg) ==
    /\ out' = Append(o, <<"panic: ">> \o msg)
    /\ Exit("panic")

NilPointer == <<"runtime error: invalid memory address or nil pointer dereference">>
IndexRange == <<"runtime error: index out of range">>

\* an error of client.Do that is logged with log.Println only: resp is nil
\* and resp.Body panics, or (a failed redirect) resp has a closed body and
\* a status of 3xx, no pattern matches and matches[1] panics
UncheckedError == {NilPointer, IndexRange}

ZeroLengthMsg(stringName) == <<"Error: zero-length string ", stringName>>

-----------------------------------------------------------------------------
(* History *)

NoResponse == [err |-> FALSE, status |-> 0]

\* a response as the history keeps it: without the listing of its body
Summary(resp) == [f \in DOMAIN resp \ {"entries"} |-> resp[f]]

Request(req) == [kind |-> "request"] @@ req
Response(stage, resp) ==
    [kind |-> "response", stage |-> stage, resp |-> Summary(resp)]
Sleep(seconds) == [kind |-> "sleep", seconds |-> seconds]

Requests == SelectSeq(events, LAMBDA e : e.kind = "request")
RequestsOf(stage) ==
    SelectSeq(events, LAMBDA e : e.kind = "request" /\ e.stage = stage)
ResponsesOf(stage) ==
    SelectSeq(events, LAMBDA e : e.kind = "response" /\ e.stage = stage)

\* the default of the --sampleConfig flag: defaultConfigName + ".yaml"
DefaultSampleConfig == <<"makeSnapshot", ".yaml">>

\* a path at which there is nothing
NoFile == [stat |-> "missing", content |-> <<>>]

-----------------------------------------------------------------------------
(* Initial state *)

Init ==
    /\ pc = "ParseFlags"
    /\ exitCode = -1
    /\ flags \in Flags
    /\ cfgFile \in ConfigFiles
    /\ viper = EmptySettings
    /\ bearerToken = <<>>
    /\ virtualMachineID = <<>>
    /\ snapshotActionID = <<>>
    /\ requestStatusURL = <<>>
    /\ trail = <<>>
    /\ response = NoResponse
    /\ events = <<>>
    /\ out = <<>>
    /\ sampleConfigFile = DefaultSampleConfig
    /\ disk = NoFile
    /\ fileOps = <<>>

-----------------------------------------------------------------------------
(* Start-up: cobra.OnInitialize(initConfig), the required flag, Run *)

\* viper.GetString(key) once the file is read: a changed flag bound to the
\* key wins over the value of the file
Settings(file) ==
    [k \in ConfigKeys |->
        IF k = "domain" /\ flags.domain.changed
        THEN flags.domain.value
        ELSE file.values[k]]

\* rootCmd.Execute parses the command line first: an argument that is not
\* a flag of init is an error, which Execute logs before os.Exit(1)
ParseFlags ==
    /\ pc = "ParseFlags"
    /\ IF flags.ignoreCase
       THEN /\ out' = Append(out, <<"unknown shorthand flag: i in -i">>)
            /\ Exit("fatal")
       ELSE /\ pc' = "initConfig"
            /\ UNCHANGED <<exitCode, out>>
    /\ UNCHANGED <<settings, locals, trail, response, events>>

initConfig ==
    /\ pc = "initConfig"
    /\ viper' = Settings(cfgFile)
    /\ out' = IF cfgFile.parses
              THEN traceInfo(out, <<"Using config file:", "makeSnapshot.yaml">>)
              ELSE out
    /\ pc' = "Execute"
    /\ UNCHANGED <<exitCode, flags, cfgFile, sample, locals, trail, response,
                   events>>

\* rootCmd.Execute: a missing required flag is an error, logged, exit 1;
\* otherwise Run is entered
Execute ==
    /\ pc = "Execute"
    /\ IF ~flags.machineName.changed
       THEN /\ out' = Append(out, <<"required flag(s) machineName not set">>)
            /\ Exit("fatal")
       ELSE /\ pc' = "validateConfig"
            /\ UNCHANGED <<exitCode, out>>
    /\ UNCHANGED <<settings, locals, trail, response, events>>

\* mutant: Run calls getSnapshotResourceActionID right after getBearerToken
RunNext_SkipResources(step) ==
    CASE step = "validateConfig"              -> "getBearerToken"
      [] step = "getBearerToken"              -> "getSnapshotResourceActionID"
      [] step = "getVirtualMachineResourceID" -> "getSnapshotResourceActionID"
      [] step = "getSnapshotResourceActionID" -> "getResourceActionTemplate"
      [] step = "getResourceActionTemplate"   ->
            IF ~flags.dryRun THEN "sendSnapshotRequest" ELSE "dryRunSkip"
      [] step = "sendSnapshotRequest"         -> "getRequestResultState"
      [] step = "getRequestResultState"       -> "bye"
      [] step = "dryRunSkip"                  -> "bye"

\* mutant: Run calls getResourceActionTemplate after sendSnapshotRequest
RunNext_TemplateLate(step) ==
    CASE step = "validateConfig"              -> "getBearerToken"
      [] step = "getBearerToken"              -> "getVirtualMachineResourceID"
      [] step = "getVirtualMachineResourceID" -> "getSnapshotResourceActionID"
      [] step = "getSnapshotResourceActionID" ->
            IF ~flags.dryRun THEN "sendSnapshotRequest"
            ELSE "getResourceActionTemplate"
      [] step = "sendSnapshotRequest"         -> "getResourceActionTemplate"
      [] step = "getResourceActionTemplate"   ->
            IF ~flags.dryRun THEN "getRequestResultState" ELSE "dryRunSkip"
      [] step = "getRequestResultState"       -> "bye"
      [] step = "dryRunSkip"                  -> "bye"

\* mutant: Run does not test dryRun
RunNext_IgnoreDryRun(step) ==
    CASE step = "validateConfig"              -> "getBearerToken"
      [] step = "getBearerToken"              -> "getVirtualMachineResourceID"
      [] step = "getVirtualMachineResourceID" -> "getSnapshotResourceActionID"
      [] step = "getSnapshotResourceActionID" -> "getResourceActionTemplate"
      [] step = "getResourceActionTemplate"   -> "sendSnapshotRequest"
      [] step = "sendSnapshotRequest"         -> "getRequestResultState"
      [] step = "getRequestResultState"       -> "bye"
      [] step = "dryRunSkip"                  -> "bye"

\* the body of Run: the call that follows the return of each call
RunNext(step) ==
    CASE step = "validateConfig"              -> "getBearerToken"
      [] step = "getBearerToken"              -> "getVirtualMachineResourceID"
      [] step = "getVirtualMachineResourceID" -> "getSnapshotResourceActionID"
      [] step = "getSnapshotResourceActionID" -> "getResourceActionTemplate"
      [] step = "getResourceActionTemplate"   ->
            IF ~flags.dryRun THEN "sendSnapshotRequest" ELSE "dryRunSkip"
      [] step = "sendSnapshotRequest"         -> "getRequestResultState"
      [] step = "getRequestResultState"       -> "bye"
      [] step = "dryRunSkip"                  -> "bye"

\* the first of the five settings, in the order validateConfig tests them,
\* that exitOnEmptyString rejects; <<>> when there is none
CheckOrder == <<"baseURL", "tenant", "domain", "userName", "password">>

RECURSIVE FirstEmpty(_, _)
FirstEmpty(values, i) ==
    IF i > Len(CheckOrder) THEN <<>>
    ELSE IF ZeroLength(values[CheckOrder[i]]) THEN <<CheckOrder[i]>>
    ELSE FirstEmpty(values, i + 1)

\* fileExists(viper.ConfigFileUsed()): os.Stat, os.IsNotExist, !info.IsDir();
\* for another Stat error info is nil and info.IsDir() panics
validateConfig ==
    /\ pc = "validateConfig"
    /\ CASE cfgFile.stat = "error" -> Panic(out, NilPointer)
         [] cfgFile.stat \in {"missing", "dir"} ->
                Fatalf(out, <<"Error: Unable to find configfile ", "makeSnapshot.yaml">>)
         [] OTHER ->
                LET bad == FirstEmpty(viper, 1)
                    line == <<"Creating snapshot of virtual machine ">>
                              \o machineName \o <<" for tenant ">>
                              \o viper.tenant
                IN  IF bad # <<>>
                    THEN Fatalf(out, ZeroLengthMsg(bad[1]))
                    ELSE /\ out' = traceInfo(out, line)
                         /\ pc' = RunNext("validateConfig")
                         /\ UNCHANGED exitCode
    /\ UNCHANGED <<settings, locals, trail, response, events>>

-----------------------------------------------------------------------------
(* The platform: the responses a request can get *)

TransportError == [err |-> TRUE, status |-> 0]

\* a response with a status the step does not expect; matched tells whether
\* the pattern the step extracts its error text with matches the body
ErrorResponses(statuses) ==
    {[err |-> FALSE, status |-> st, matched |-> m, text |-> <<"Unauthorized">>] :
        st \in statuses, m \in BOOLEAN}

\* the part of a step up to client.Do: the trace line and the request; when
\* the URL does not parse req is nil, req.Header.Add panics, nothing is sent
Send(line, req, await) ==
    LET o == traceInfo(out, line)
    IN  /\ trail' = Append(trail, req.stage)
        /\ IF ~URLParses(req.url)
           THEN /\ Panic(o, NilPointer)
                /\ UNCHANGED <<response, events>>
           ELSE /\ out' = o
                /\ events' = Append(events, Request(req))
                /\ response' = NoResponse
                /\ pc' = await
                /\ UNCHANGED exitCode

\* the return of client.Do: the response becomes part of the history
Receive(stage, resp) ==
    /\ response' = resp
    /\ events' = Append(events, Response(stage, resp))
    /\ UNCHANGED trail

\* the step goes on to the next call of Run
Return(step) ==
    /\ pc' = RunNext(step)
    /\ UNCHANGED <<exitCode, out>>

-----------------------------------------------------------------------------
(* Step 1 - Get bearer token *)

TokenIDs == {<<>>, <<" ">>, <<"MTU1NjUz">>}

TokenResponses ==
    {TransportError}
        \cup ErrorResponses({201, 401})
        \cup {[err |-> FALSE, status |-> 200, json |-> FALSE, id |-> <<>>]}
        \cup {[err |-> FALSE, status |-> 200, json |-> TRUE, id |-> t] :
                t \in TokenIDs}

\* mutant: the user name is sent without the domain
TokenRequest_NoDomain ==
    [stage   |-> 1,
     method  |-> "POST",
     url     |-> viper.baseURL \o <<"/identity/api/tokens">>,
     headers |-> [ContentType |-> <<"application/json">>,
                  Accept      |-> <<"application/json">>,
                  UserAgent   |-> userAgent],
     body    |-> [username |-> viper.userName,
                  password |-> viper.password,
                  tenant   |-> viper.tenant]]

TokenRequest ==
    [stage   |-> 1,
     method  |-> "POST",
     url     |-> viper.baseURL \o <<"/identity/api/tokens">>,
     headers |-> [ContentType |-> <<"application/json">>,
                  Accept      |-> <<"application/json">>,
                  UserAgent   |-> userAgent],
     body    |-> [username |-> viper.userName \o <<"@">> \o viper.domain,
                  password |-> viper.password,
                  tenant   |-> viper.tenant]]

getBearerToken ==
    /\ pc = "getBearerToken"
    /\ Send(<<"Step 1 - Get bearer token">>, TokenRequest, "awaitToken")
    /\ UNCHANGED <<settings, locals>>

\* the rest of getBearerToken, from the return of client.Do
getBearerToken_resp ==
    /\ pc = "awaitToken"
    /\ \E resp \in TokenResponses :
        /\ Receive(1, resp)
        /\ CASE resp.err ->
                    /\ Fatalf(out, <<"Error: ", "connection error">>)
                    /\ UNCHANGED bearerToken
             [] ~resp.err /\ resp.status # 200 ->
                    /\ IF resp.matched
                       THEN Fatalf(out, <<"Error: Unexpected HTTP response status code ">>
                                          \o resp.text)
                       ELSE Panic(out, IndexRange)
                    /\ UNCHANGED bearerToken
             [] ~resp.err /\ resp.status = 200 /\ ~resp.json ->
                    /\ Fatalf(out, <<"Error: ", "invalid JSON">>)
                    /\ UNCHANGED bearerToken
             [] ~resp.err /\ resp.status = 200 /\ resp.json
                    /\ ZeroLength(resp.id) ->
                    /\ Fatalf(out, ZeroLengthMsg("bearerToken"))
                    /\ UNCHANGED bearerToken
             [] OTHER ->
                    /\ bearerToken' = <<"Bearer ">> \o resp.id
                    /\ Return("getBearerToken")
    /\ UNCHANGED <<settings, virtualMachineID, snapshotActionID, requestStatusURL>>

-----------------------------------------------------------------------------
(* Step 2 - Get virtual machine resource ID *)

\* mutant: the token id is sent without the word Bearer
AuthorizedHeaders_RawToken(token) ==
    [ContentType   |-> <<"application/json">>,
     Accept        |-> <<"application/json">>,
     Authorization |-> Tail(token),
     UserAgent     |-> userAgent]

\* the headers steps 2 and 3 set
AuthorizedHeaders(token) ==
    [ContentType   |-> <<"application/json">>,
     Accept        |-> <<"application/json">>,
     Authorization |-> token,
     UserAgent     |-> userAgent]

ResourcesRequest(token) ==
    [stage   |-> 2,
     method  |-> "GET",
     url     |-> viper.baseURL
                   \o <<"/catalog-service/api/consumer/resources?page=1&limit=5000">>,
     headers |-> AuthorizedHeaders(token),
     body    |-> <<>>]

\* identifiers of 36 characters, each a single chunk
UUIDs == {"2a415ba9-81f5-4bff-b35f-bccfd5587165",
          "fcf490d5-a7e9-4640-be83-ac74d4484c91"}

\* the number of characters of a string
RECURSIVE CharCount(_)
CharCount(s) ==
    IF s = <<>> THEN 0
    ELSE (IF Head(s) \in UUIDs THEN IDLength ELSE 1) + CharCount(Tail(s))

\* one atom of the pattern against one character: the machine name is put
\* into the pattern as it is, so its dot stands for any character
AtomMatches(atom, ch) == atom = "." \/ atom = ch

\* "name":".{3}(machine)","description" against the name of an entry
NameMatches(machine, name) ==
    /\ Len(name) = 3 + Len(machine)
    /\ \A i \in 1..Len(machine) : AtomMatches(machine[i], name[3 + i])

\* the whole pattern of step 2 against one entry of the listing
ResourceMatches(machine, entry) ==
    /\ entry.type = "Virtual Machine"
    /\ CharCount(entry.id) = IDLength
    /\ NameMatches(machine, entry.name)

\* mutant: the last match of the listing is taken
RECURSIVE FindResource_Last(_, _, _)
FindResource_Last(machine, entries, i) ==
    IF i > Len(entries) THEN 0
    ELSE LET later == FindResource_Last(machine, entries, i + 1)
         IN  IF later # 0 THEN later
             ELSE IF ResourceMatches(machine, entries[i]) THEN i
             ELSE 0

\* FindStringSubmatch: the leftmost match; 0 when there is none
RECURSIVE FindResource(_, _, _)
FindResource(machine, entries, i) ==
    IF i > Len(entries) THEN 0
    ELSE IF ResourceMatches(machine, entries[i]) THEN i
    ELSE FindResource(machine, entries, i + 1)

Blank36 == [i \in 1..IDLength |-> " "]

ResourceIDs == {<<"2a415ba9-81f5-4bff-b35f-bccfd5587165">>,
                <<"fcf490d5-a7e9-4640-be83-ac74d4484c91">>}

ResourceNames == {<<"t", "s", "t", "d", "b">>,
                  <<"t", "s", "t", "d", "x">>,
                  <<"t", "s", "t", "D", "B">>,
                  <<"t", "s", "t", "d", "b", "2">>}

\* virtual machines of every name and identifier, one of them with a blank
\* identifier, one with a short one, and a resource of another type
ResourceEntries ==
    [type : {"Virtual Machine"}, id : ResourceIDs, name : ResourceNames]
        \cup {[type |-> "Virtual Machine", id |-> Blank36,
                name |-> <<"t", "s", "t", "d", "b">>],
               [type |-> "Virtual Machine", id |-> <<"7">>,
                name |-> <<"t", "s", "t", "d", "b">>],
               [type |-> "Deployment",
                id |-> <<"2a415ba9-81f5-4bff-b35f-bccfd5587165">>,
                name |-> <<"t", "s", "t", "d", "b">>]}

RECURSIVE SeqsUpTo(_, _)
SeqsUpTo(S, n) ==
    IF n = 0 THEN {<<>>}
    ELSE LET shorter == SeqsUpTo(S, n - 1)
         IN  shorter \cup {Append(q, x) : q \in shorter, x \in S}

ResourcesResponses ==
    {TransportError}
        \cup ErrorResponses({401})
        \cup {[err |-> FALSE, status |-> 200, entries |-> l] :
                l \in SeqsUpTo(ResourceEntries, MaxResources)}

getVirtualMachineResourceID ==
    /\ pc = "getVirtualMachineResourceID"
    /\ Send(<<"Step 2 - Get virtual machine resource ID for ">> \o machineName,
            ResourcesRequest(bearerToken), "awaitResources")
    /\ UNCHANGED <<settings, locals>>

getVirtualMachineResourceID_resp ==
    /\ pc = "awaitResources"
    /\ \E resp \in ResourcesResponses :
        /\ Receive(2, resp)
        /\ CASE resp.err ->
                    /\ Fatalf(out, <<"Error: ", "connection error">>)
                    /\ UNCHANGED virtualMachineID
             [] ~resp.err /\ resp.status # 200 ->
                    /\ IF resp.matched
                       THEN Fatalf(out, <<"Error: ">> \o resp.text)
                       ELSE Panic(out, IndexRange)
                    /\ UNCHANGED virtualMachineID
             [] OTHER ->
                    LET m == FindResource(machineName, resp.entries, 1)
                    IN  IF m = 0
                        THEN /\ Fatalf(out, <<"Error: Unable to find Catalog Resource id for virtual machine ">>
                                              \o machineName)
                             /\ UNCHANGED virtualMachineID
                        ELSE IF ZeroLength(resp.entries[m].id)
                        THEN /\ Fatalf(out, ZeroLengthMsg("machineID"))
                             /\ UNCHANGED virtualMachineID
                        ELSE /\ virtualMachineID' = resp.entries[m].id
                             /\ Return("getVirtualMachineResourceID")
    /\ UNCHANGED <<settings, bearerToken, snapshotActionID, requestStatusURL>>

-----------------------------------------------------------------------------
(* Step 3 - Get snapshot resource action ID *)

ActionsRequest(token, vmID) ==
    [stage   |-> 3,
     method  |-> "GET",
     url     |-> viper.baseURL \o <<"/catalog-service/api/consumer/resources/">>
                   \o vmID \o <<"/actions/">>,
     headers |-> AuthorizedHeaders(token),
     body    |-> <<>>]

RECURSIVE FirstNamed(_, _, _)
FirstNamed(name, entries, i) ==
    IF i > Len(entries) THEN 0
    ELSE IF entries[i].name = name THEN i
    ELSE FirstNamed(name, entries, i + 1)

RECURSIVE FirstOfType(_, _, _)
FirstOfType(type, entries, i) ==
    IF i > Len(entries) THEN 0
    ELSE IF entries[i].type = type THEN i
    ELSE FirstOfType(type, entries, i + 1)

\* "name":"Create VM Snapshot".*?"ACTION","id":"(.*?)", against the listing,
\* every entry written as name, type, id: the match starts at the first
\* entry of that name and .*? runs on to the nearest "ACTION","id":" that
\* follows the name, in that entry or in a later one; 0 when none follows
FindAction(entries) ==
    LET n == FirstNamed("Create VM Snapshot", entries, 1)
    IN  IF n = 0 THEN 0 ELSE FirstOfType("ACTION", entries, n)

ActionIDs == {<<"act-1">>, <<"act-2">>}

\* actions of both names, types and identifiers, and one with a blank one
ActionEntries ==
    [name : {"Create VM Snapshot", "Reboot"}, type : {"ACTION", "EXTENSION"},
     id : ActionIDs]
        \cup {[name |-> "Create VM Snapshot", type |-> "ACTION", id |-> <<" ">>]}

ActionsResponses ==
    {TransportError}
        \cup ErrorResponses({401})
        \cup {[err |-> FALSE, status |-> 200, entries |-> l] :
                l \in SeqsUpTo(ActionEntries, MaxActions)}

getSnapshotResourceActionID ==
    /\ pc = "getSnapshotResourceActionID"
    /\ Send(<<"Step 3 - Get snapshot resource action ID for ">> \o machineName,
            ActionsRequest(bearerToken, virtualMachineID), "awaitActions")
    /\ UNCHANGED <<settings, locals>>

getSnapshotResourceActionID_resp ==
    /\ pc = "awaitActions"
    /\ \E resp \in ActionsResponses :
        /\ Receive(3, resp)
        /\ CASE resp.err ->
                    /\ \E msg \in UncheckedError :
                            Panic(Append(out, <<"Failure : ", "connection error">>),
                                  msg)
                    /\ UNCHANGED snapshotActionID
             [] ~resp.err /\ resp.status # 200 ->
                    /\ IF resp.matched
                       THEN Fatalf(out, <<"Error: ">> \o resp.text)
                       ELSE Panic(out, IndexRange)
                    /\ UNCHANGED snapshotActionID
             [] OTHER ->
                    LET m == FindAction(resp.entries)
                    IN  IF m = 0
                        THEN /\ Fatalf(out, <<"Error: Unable to find Create Snapshot Action id">>)
                             /\ UNCHANGED snapshotActionID
                        ELSE IF ZeroLength(resp.entries[m].id)
                        THEN /\ Fatalf(out, ZeroLengthMsg("Create Snapshot Action ID"))
                             /\ UNCHANGED snapshotActionID
                        ELSE /\ snapshotActionID' = resp.entries[m].id
                             /\ Return("getSnapshotResourceActionID")
    /\ UNCHANGED <<settings, bearerToken, virtualMachineID, requestStatusURL>>

-----------------------------------------------------------------------------
(* Step 4 - Get resource action template, and the dry-run branch of Run *)

\* the fake call: a trace line, no request
getResourceActionTemplate ==
    /\ pc = "getResourceActionTemplate"
    /\ trail' = Append(trail, 4)
    /\ out' = traceInfo(out, <<"Step 4 - Get resource action template">>)
    /\ pc' = RunNext("getResourceActionTemplate")
    /\ UNCHANGED <<exitCode, settings, locals, response, events>>

dryRunSkip ==
    /\ pc = "dryRunSkip"
    /\ out' = traceInfo(traceInfo(out, <<"Step 5 - Skipped because of dry-run">>),
                        <<"Step 6 - Skipped because of dry-run">>)
    /\ pc' = RunNext("dryRunSkip")
    /\ UNCHANGED <<exitCode, settings, locals, trail, response, events>>

\* the end of Run: the last trace line, then the process ends with status 0
bye ==
    /\ pc = "bye"
    /\ out' = traceInfo(out, <<"Bye from makeSnapshot">>)
    /\ Exit("return")
    /\ UNCHANGED <<settings, locals, trail, response, events>>

-----------------------------------------------------------------------------
(* Step 5 - Send snapshot request *)

\* mutant: both texts carry provider-deleteExisting true
SnapshotPayload_AlwaysDelete(keepExisting) ==
    [type |-> "com.vmware.vcac.catalog.domain.request.CatalogResourceRequest",
     data |-> [existingSnapshotName      |-> "null",
               deleteExisting            |-> TRUE,
               description               |-> "Snapshotdescription",
               name                      |-> "Snapshot name",
               ASD_PRESENTATION_INSTANCE |-> "null",
               asd_tenantRef             |-> viper.tenant],
     description |-> "makeSnapshot call"]

\* the two JSON texts of sendSnapshotRequest, field by field
SnapshotPayload(keepExisting) ==
    IF keepExisting
    THEN [type |-> "com.vmware.vcac.catalog.domain.request.CatalogResourceRequest",
          data |-> [existingSnapshotName      |-> "null",
                    deleteExisting            |-> FALSE,
                    description               |-> "Snapshotdescription",
                    name                      |-> "Snapshot name",
                    ASD_PRESENTATION_INSTANCE |-> "null",
                    asd_tenantRef             |-> viper.tenant],
          description |-> "makeSnapshot call"]
    ELSE [type |-> "com.vmware.vcac.catalog.domain.request.CatalogResourceRequest",
          data |-> [existingSnapshotName      |-> "null",
                    deleteExisting            |-> TRUE,
                    description               |-> "Snapshotdescription",
                    name                      |-> "Snapshot name",
                    ASD_PRESENTATION_INSTANCE |-> "null",
                    asd_tenantRef             |-> viper.tenant],
          description |-> "makeSnapshot call"]

\* mutant: the two identifiers change places in the URL
SnapshotRequest_SwappedIDs(token, vmID, actionID) ==
    [stage   |-> 5,
     method  |-> "POST",
     url     |-> viper.baseURL \o <<"/catalog-service/api/consumer/resources/">>
                   \o actionID \o <<"/actions/">> \o vmID \o <<"/requests/">>,
     headers |-> [ContentType   |-> <<"application/json;charset=UTF-8">>,
                  Accept        |-> <<"application/json;charset=UTF-8">>,
                  Authorization |-> token,
                  UserAgent     |-> userAgent],
     body    |-> SnapshotPayload(flags.keepExisting)]

SnapshotRequest(token, vmID, actionID) ==
    [stage   |-> 5,
     method  |-> "POST",
     url     |-> viper.baseURL \o <<"/catalog-service/api/consumer/resources/">>
                   \o vmID \o <<"/actions/">> \o actionID \o <<"/requests/">>,
     headers |-> [ContentType   |-> <<"application/json;charset=UTF-8">>,
                  Accept        |-> <<"application/json;charset=UTF-8">>,
                  Authorization |-> token,
                  UserAgent     |-> userAgent],
     body    |-> SnapshotPayload(flags.keepExisting)]

\* resp.Header.Get("Location"): the empty string when the header is absent
GoodLocation == <<"https://vra/catalog-service/api/consumer/requests/", "7aaf9baf">>
Locations == {<<>>, <<" ">>, <<"%zz">>, GoodLocation}

SnapshotResponses ==
    {TransportError}
        \cup {[err |-> FALSE, status |-> st, matched |-> m,
               text |-> <<"Bad Request">>, location |-> l] :
                st \in {200, 401}, m \in BOOLEAN, l \in {<<>>, GoodLocation}}
        \cup {[err |-> FALSE, status |-> 201, matched |-> FALSE,
               text |-> <<>>, location |-> l] : l \in Locations}

\* mutant: status 200 is accepted as well
Created_OrOK(status) == status \in {200, 201}

\* the status sendSnapshotRequest goes on with
Created(status) == status = 201

sendSnapshotRequest ==
    /\ pc = "sendSnapshotRequest"
    /\ Send(<<"Step 5 - Send snapshot request for ">> \o machineName,
            SnapshotRequest(bearerToken, virtualMachineID, snapshotActionID),
            "awaitSnapshot")
    /\ UNCHANGED <<settings, locals>>

sendSnapshotRequest_resp ==
    /\ pc = "awaitSnapshot"
    /\ \E resp \in SnapshotResponses :
        /\ Receive(5, resp)
        /\ CASE resp.err ->
                    /\ Fatalf(out, <<"Error: ", "connection error">>)
                    /\ UNCHANGED requestStatusURL
             [] ~resp.err /\ ~Created(resp.status) ->
                    /\ IF resp.matched
                       THEN Fatalf(out, <<"Error: ">> \o resp.text)
                       ELSE Panic(out, IndexRange)
                    /\ UNCHANGED requestStatusURL
             [] ~resp.err /\ Created(resp.status) /\ ZeroLength(resp.location) ->
                    /\ Fatalf(out, ZeroLengthMsg("Resource Action Request URL"))
                    /\ UNCHANGED requestStatusURL
             [] OTHER ->
                    /\ requestStatusURL' = resp.location
                    /\ Return("sendSnapshotRequest")
    /\ UNCHANGED <<settings, bearerToken, virtualMachineID, snapshotActionID>>

-----------------------------------------------------------------------------
(* Step 6 - Get request result state *)

\* mutant: the Location is taken as a path under baseURL
StatusRequest_UnderBaseURL(token, statusURL) ==
    [stage   |-> 6,
     method  |-> "GET",
     url     |-> viper.baseURL \o statusURL,
     headers |-> [ContentType   |-> <<"application/json;charset=UTF-8">>,
                  Accept        |-> <<"application/json;charset=UTF-8">>,
                  Authorization |-> token],
     body    |-> <<>>]

\* the request built once before the loop; no User-Agent header is set on it
StatusRequest(token, statusURL) ==
    [stage   |-> 6,
     method  |-> "GET",
     url     |-> statusURL,
     headers |-> [ContentType   |-> <<"application/json;charset=UTF-8">>,
                  Accept        |-> <<"application/json;charset=UTF-8">>,
                  Authorization |-> token],
     body    |-> <<>>]

\* the first part of getRequestResultState, up to the loop
getRequestResultState ==
    /\ pc = "getRequestResultState"
    /\ trail' = Append(trail, 6)
    /\ LET o == traceInfo(out, <<"Step 6 - Get snapshot request status...">>)
       IN  IF ~URLParses(requestStatusURL)
           THEN Panic(o, NilPointer)
           ELSE /\ out' = o
                /\ pc' = "poll"
                /\ UNCHANGED exitCode
    /\ UNCHANGED <<settings, locals, response, events>>

\* a poll response: matched tells whether "stateName":"(.*?)" matches the
\* body, state is the first stateName of the body; the status is not read
StateNames == {"In Progress", "FAILED", "Successful", "Failed"}

StatusResponses ==
    {TransportError}
        \cup {[err |-> FALSE, status |-> 200, matched |-> TRUE, state |-> s] :
                s \in StateNames}
        \cup {[err |-> FALSE, status |-> st, matched |-> FALSE, state |-> ""] :
                st \in {200, 401}}
        \cup {[err |-> FALSE, status |-> 500, matched |-> TRUE, state |-> "Successful"]}

PollCount == Len(RequestsOf(6))

\* mutant: the loop does not end on Successful
PollVerdict_SuccessfulAgain(state) ==
    CASE state = "Failed"     -> "fatal"
      [] OTHER                -> "again"

\* mutant: Failed ends the loop like Successful
PollVerdict_FailedBreaks(state) ==
    CASE state = "Failed"     -> "break"
      [] state = "Successful" -> "break"
      [] OTHER                -> "again"

\* mutant: any state name but Failed ends the loop
PollVerdict_OtherBreaks(state) ==
    CASE state = "Failed"     -> "fatal"
      [] OTHER                -> "break"

\* mutant: the loop gives up on a state name that is not Successful
PollVerdict_OtherFatal(state) ==
    CASE state = "Successful" -> "break"
      [] OTHER                -> "fatal"

\* what a pass of the loop does with the state name it extracted
PollVerdict(state) ==
    CASE state = "Failed"     -> "fatal"
      [] state = "Successful" -> "break"
      [] OTHER                -> "again"

\* mutant: the pass sends the request without sleeping first
PollEvents_NoSleep(req) == <<Request(req)>>

\* what a pass of the loop does up to client.Do: time.Sleep, then the request
PollEvents(req) == <<Sleep(PollSeconds), Request(req)>>

\* one pass of the loop, up to client.Do: the sleep, then the request
poll ==
    /\ pc = "poll"
    /\ PollCount < MaxPolls
    /\ events' = events \o PollEvents(StatusRequest(bearerToken, requestStatusURL))
    /\ response' = NoResponse
    /\ pc' = "awaitStatus"
    /\ UNCHANGED <<exitCode, settings, locals, trail, out>>

\* the rest of the pass, from the return of client.Do
poll_resp ==
    /\ pc = "awaitStatus"
    /\ \E resp \in StatusResponses :
        /\ Receive(6, resp)
        /\ CASE resp.err ->
                    \E msg \in UncheckedError :
                        Panic(Append(out, <<"Failure : ", "connection error">>),
                              msg)
             [] ~resp.err /\ ~resp.matched ->
                    Panic(out, IndexRange)
             [] OTHER ->
                    LET o == traceInfo(out, <<"Step 6 - Snapshot request status: ",
                                              resp.state>>)
                        verdict == PollVerdict(resp.state)
                    IN  CASE verdict = "fatal" ->
                                Fatalf(o, <<"Error: Snapshot request failed, check the vRA portal for more info">>)
                          [] verdict = "break" ->
                                /\ out' = o
                                /\ pc' = RunNext("getRequestResultState")
                                /\ UNCHANGED exitCode
                          [] OTHER ->
                                /\ out' = o
                                /\ pc' = "poll"
                                /\ UNCHANGED exitCode
    /\ UNCHANGED <<settings, locals>>

-----------------------------------------------------------------------------
Next ==
    \/ ParseFlags
    \/ initConfig
    \/ Execute
    \/ validateConfig
    \/ getBearerToken
    \/ getBearerToken_resp
    \/ getVirtualMachineResourceID
    \/ getVirtualMachineResourceID_resp
    \/ getSnapshotResourceActionID
    \/ getSnapshotResourceActionID_resp
    \/ getResourceActionTemplate
    \/ dryRunSkip
    \/ sendSnapshotRequest
    \/ sendSnapshotRequest_resp
    \/ getRequestResultState
    \/ poll
    \/ poll_resp
    \/ bye

Spec == Init /\ [][Next]_vars

\* the steps of the program itself: the process is one goroutine that runs
\* on until it exits; the return of client.Do is left to the platform
ProgramStep ==
    \/ ParseFlags
    \/ initConfig
    \/ Execute
    \/ validateConfig
    \/ getBearerToken
    \/ getVirtualMachineResourceID
    \/ getSnapshotResourceActionID
    \/ getResourceActionTemplate
    \/ dryRunSkip
    \/ sendSnapshotRequest
    \/ getRequestResultState
    \/ poll
    \/ bye

FairSpec == Spec /\ WF_vars(ProgramStep)

-----------------------------------------------------------------------------
(* The generateConfig command: writeSampleConfigFile(sampleConfigFile) *)

\* the lines writeSampleConfigFile writes, each a key and its quoted value
SampleLines ==
    << <<"---">>,
       <<"baseURL: ", "https://your.base.url">>,
       <<"tenant: ", "your tenant name">>,
       <<"domain: ", "your domain name">>,
       <<"username: ", "your username without domain">>,
       <<"password: ", "your password">>,
       <<"...">> >>

SampleConfigPaths == {DefaultSampleConfig, <<"conf">>}

\* what os.Stat can find at the path: nothing, a directory, a regular file
\* (empty or not), or an error that is not a not-exist error
Disks ==
    {NoFile,
     [stat |-> "dir", content |-> <<>>],
     [stat |-> "error", content |-> <<>>],
     [stat |-> "file", content |-> <<>>],
     [stat |-> "file", content |-> << <<"baseURL: ", "https://vra">> >>]}

\* the flag variables of the root command when a subcommand runs
NoFlags ==
    [domain |-> [changed |-> FALSE, value |-> <<>>], dryRun |-> FALSE,
     ignoreCase |-> FALSE, keepExisting |-> FALSE,
     machineName |-> [changed |-> FALSE, value |-> <<>>], trace |-> FALSE]

GenInit ==
    /\ pc = "generateConfig"
    /\ exitCode = -1
    /\ flags = NoFlags
    /\ cfgFile = [stat |-> "missing", parses |-> FALSE, values |-> EmptySettings]
    /\ viper = EmptySettings
    /\ bearerToken = <<>>
    /\ virtualMachineID = <<>>
    /\ snapshotActionID = <<>>
    /\ requestStatusURL = <<>>
    /\ trail = <<>>
    /\ response = NoResponse
    /\ events = <<>>
    /\ out = <<>>
    /\ sampleConfigFile \in SampleConfigPaths
    /\ disk \in Disks
    /\ fileOps = <<>>

\* what generateConfig leaves alone
pipeline == <<flags, cfgFile, viper, locals, trail, response, events>>

\* mutant: fileExists answers false whatever is at the path
fileExists_Never(stat) == "false"

\* os.Stat, os.IsNotExist(err), !info.IsDir(); for another error of Stat
\* info is nil and info.IsDir() panics
fileExists(stat) ==
    CASE stat = "missing" -> "false"
      [] stat = "error"   -> "panic"
      [] stat = "dir"     -> "false"
      [] stat = "file"    -> "true"

UnableToCreateMsg ==
    <<"Error: Unable to create ">> \o sampleConfigFile
        \o <<", file or directory already exists">>

CreatedMsg == <<"Created config file ">> \o sampleConfigFile

\* the test of writeSampleConfigFile, and its else branch
writeSampleConfigFile ==
    /\ pc = "generateConfig"
    /\ LET found == fileExists(disk.stat)
       IN  CASE found = "panic" -> Panic(out, NilPointer)
             [] found = "true"  -> /\ out' = Append(out, UnableToCreateMsg)
                                   /\ Exit("return")
             [] OTHER           -> /\ pc' = "create"
                                   /\ UNCHANGED <<exitCode, out>>
    /\ UNCHANGED <<pipeline, sample>>

\* os.Create: creates or truncates a regular file; fails on a directory,
\* and may fail elsewhere (permissions, a missing parent directory); the
\* error is logged and the function goes on with a nil file
writeSampleConfigFile_create ==
    /\ pc = "create"
    /\ \E ok \in (IF disk.stat = "dir" THEN {FALSE} ELSE BOOLEAN) :
        /\ fileOps' = Append(fileOps, [op |-> "create", ok |-> ok])
        /\ disk' = IF ok THEN [stat |-> "file", content |-> <<>>] ELSE disk
        /\ out' = IF ok THEN out ELSE Append(out, <<"Error: ", "open failed">>)
    /\ pc' = "write"
    /\ UNCHANGED <<exitCode, pipeline, sampleConfigFile>>

\* the file of os.Create is open
FileOpen == fileOps # <<>> /\ fileOps[1].ok

\* one file.WriteString: on a nil file it returns an error, on an open one
\* it may (a full disk); the result is not looked at
writeSampleConfigFile_write ==
    /\ pc = "write"
    /\ Len(fileOps) <= Len(SampleLines)
    /\ \E ok \in (IF FileOpen THEN BOOLEAN ELSE {FALSE}) :
        /\ fileOps' = Append(fileOps, [op |-> "write", ok |-> ok])
        /\ disk' = IF ok
                   THEN [disk EXCEPT !.content =
                            Append(@, SampleLines[Len(fileOps)])]
                   ELSE disk
    /\ pc' = IF Len(fileOps) = Len(SampleLines) THEN "close" ELSE "write"
    /\ UNCHANGED <<exitCode, out, pipeline, sampleConfigFile>>

\* file.Sync, file.Close, the last log line, and the return to main
writeSampleConfigFile_close ==
    /\ pc = "close"
    /\ out' = Append(out, CreatedMsg)
    /\ Exit("return")
    /\ UNCHANGED <<pipeline, sample>>

GenNext ==
    \/ writeSampleConfigFile
    \/ writeSampleConfigFile_create
    \/ writeSampleConfigFile_write
    \/ writeSampleConfigFile_close

GenSpec == GenInit /\ [][GenNext]_vars

-----------------------------------------------------------------------------
(* Properties *)

StageOrder == <<1, 2, 3, 4, 5, 6>>

IsPrefix(s, t) == Len(s) <= Len(t) /\ \A i \in 1..Len(s) : s[i] = t[i]

\* step k has returned to Run
StageCompleted(k) ==
    CASE k = 1 -> bearerToken # <<>>
      [] k = 2 -> virtualMachineID # <<>>
      [] k = 3 -> snapshotActionID # <<>>
      [] k = 4 -> Len(trail) >= 4
      [] k = 5 -> requestStatusURL # <<>>

PollResponses == ResponsesOf(6)

\* the state name a poll response yields, when it yields one
Yields(r, state) == ~r.err /\ r.matched /\ r.state = state
NonTerminal(r) ==
    ~r.err /\ r.matched /\ r.state \notin {"Successful", "Failed"}

SuccessfulSeen ==
    \E i \in 1..Len(PollResponses) : Yields(PollResponses[i].resp, "Successful")

\* a string that is empty or holds white space only
Blank(v) == \A i \in 1..Len(v) : v[i] \in {" ", "\t"}

\* C1: the steps are entered in the order 1, 2, 3, 4, 5, 6, each at most
\* once; a request of a step is issued only when every earlier step has
\* returned, the requests of steps 1-5 once each; a run that returns from
\* Run skipped nothing, or steps 5 and 6 together and then dry-run is set
C1_StagesInOrder ==
    /\ IsPrefix(trail, StageOrder)
    /\ \A i \in 1..Len(Requests) :
            LET k == Requests[i].stage
            IN  /\ k \in 1..6 /\ k # 4
                /\ \A j \in 1..(k - 1) : StageCompleted(j)
                /\ k < 6 => Len(RequestsOf(k)) = 1
    /\ (\E i \in 1..Len(trail) : trail[i] \in {5, 6}) => ~flags.dryRun
    /\ (pc = "bye" \/ (pc = "exit" /\ exitCode = 0)) =>
            trail = IF flags.dryRun THEN <<1, 2, 3, 4>> ELSE StageOrder

C1_Witness ==
    /\ pc = "exit" /\ exitCode = 0
    /\ trail = StageOrder
    /\ PollCount = 2

\* C2: with dry-run set no request of step 5 and no poll is ever issued,
\* and once step 4 is done the run can only end, with status 0
C2_DryRunIssuesNoSnapshot ==
    flags.dryRun =>
        /\ RequestsOf(5) = <<>>
        /\ RequestsOf(6) = <<>>
        /\ Len(trail) >= 4 =>
                /\ pc \in {"dryRunSkip", "bye", "exit"}
                /\ pc = "exit" => exitCode = 0

C2_Witness ==
    /\ flags.dryRun
    /\ pc = "exit" /\ exitCode = 0
    /\ Len(Requests) = 3

\* C3: when the first n-1 poll responses yield a state name other than
\* Successful and Failed and the n-th yields Successful, exactly n polls
\* have been issued, none follows, and the run ends with status 0
C3_SuccessfulEndsPolling ==
    \A n \in 1..Len(PollResponses) :
        (/\ \A i \in 1..(n - 1) : NonTerminal(PollResponses[i].resp)
         /\ Yields(PollResponses[n].resp, "Successful"))
        => /\ PollCount = n
           /\ Len(PollResponses) = n
           /\ pc \in {"bye", "exit"}
           /\ pc = "exit" => exitCode = 0

C3_Witness ==
    /\ pc = "exit" /\ exitCode = 0
    /\ PollCount = 3
    /\ Len(PollResponses) = 3
    /\ NonTerminal(PollResponses[1].resp)
    /\ NonTerminal(PollResponses[2].resp)
    /\ Yields(PollResponses[3].resp, "Successful")

\* C4: when the first n-1 poll responses yield a non-terminal state name
\* and the n-th yields Failed, exactly n polls have been issued, none
\* follows, and the run has ended with status 1 and the portal diagnostic
C4_FailedEndsRun ==
    \A n \in 1..Len(PollResponses) :
        (/\ \A i \in 1..(n - 1) : NonTerminal(PollResponses[i].resp)
         /\ Yields(PollResponses[n].resp, "Failed"))
        => /\ PollCount = n
           /\ Len(PollResponses) = n
           /\ pc = "exit" /\ exitCode = 1
           /\ out # <<>>
           /\ out[Len(out)] =
                <<"Error: Snapshot request failed, check the vRA portal for more info">>

C4_Witness ==
    /\ pc = "exit" /\ exitCode = 1
    /\ PollCount = 2
    /\ Len(PollResponses) = 2
    /\ NonTerminal(PollResponses[1].resp)
    /\ Yields(PollResponses[2].resp, "Failed")

\* C5: a response to the request of step 5 with a status other than 201
\* ends the run with a non-zero status, and no poll is ever issued
C5_Non201EndsRun ==
    \A i \in 1..Len(ResponsesOf(5)) :
        LET r == ResponsesOf(5)[i].resp
        IN  (~r.err /\ r.status # 201) =>
                /\ pc = "exit" /\ exitCode > 0
                /\ RequestsOf(6) = <<>>

C5_Witness ==
    /\ Len(ResponsesOf(5)) = 1
    /\ ~ResponsesOf(5)[1].resp.err
    /\ ResponsesOf(5)[1].resp.status = 200
    /\ ResponsesOf(5)[1].resp.location # <<>>
    /\ pc = "exit" /\ exitCode = 1

\* the configuration file was found and none of the five settings is blank
ConfigComplete ==
    /\ cfgFile.stat = "file"
    /\ \A k \in ConfigKeys : ~Blank(viper[k])

\* C6: a request is issued only if the configuration file was found and
\* the five settings are non-blank; otherwise the run ends in
\* validateConfig at the latest, with a non-zero status and no request
C6_NoRequestWithoutConfig ==
    /\ events # <<>> => ConfigComplete
    /\ ~ConfigComplete =>
            /\ pc \in {"ParseFlags", "initConfig", "Execute", "validateConfig",
                      "exit"}
            /\ pc = "exit" => exitCode > 0

C6_Witness ==
    /\ pc = "exit" /\ exitCode = 1
    /\ events = <<>>
    /\ flags.machineName.changed
    /\ cfgFile.stat = "file"
    /\ viper.password = <<" ", "\t">>
    /\ \A k \in ConfigKeys \ {"password"} : ~Blank(viper[k])

\* C7: the payload of step 5 has deleteExisting = ~keepExisting, and but
\* for that flag it is the payload of the default mode
C7_DeleteExistingIsNotKeep ==
    \A i \in 1..Len(RequestsOf(5)) :
        LET body == RequestsOf(5)[i].body
        IN  /\ body.data.deleteExisting = ~flags.keepExisting
            /\ [body EXCEPT !.data.deleteExisting = TRUE] = SnapshotPayload(FALSE)
            /\ [body EXCEPT !.data.deleteExisting = FALSE] = SnapshotPayload(TRUE)

C7_Witness ==
    /\ flags.keepExisting
    /\ Len(RequestsOf(5)) = 1
    /\ RequestsOf(5)[1].body.data.deleteExisting = FALSE

\* C8: a run that has ended has status 0 exactly when a poll yielded
\* Successful, or dry-run is set and steps 1-4 are done; so every run
\* that ended another way has a non-zero status
C8_ExitZeroIffSuccess ==
    pc = "exit" =>
        (exitCode = 0 <=> (SuccessfulSeen \/ (flags.dryRun /\ Len(trail) >= 4)))

C8_Witness ==
    /\ pc = "exit" /\ exitCode = 1
    /\ Len(Requests) = 2
    /\ ~response.err /\ response.status = 200

\* C9: a run that has ended has status 0 when a poll yielded Successful,
\* and status 1 in every other case
C9_ExitOneUnlessCreated ==
    pc = "exit" => exitCode = IF SuccessfulSeen THEN 0 ELSE 1

\* C10 as claimed: after a poll response that yields neither Failed nor
\* Successful, whatever it holds, the run still runs and polls again
C10_AnyOtherResponsePollsAgain ==
    \A j \in 1..Len(events) :
        (/\ events[j].kind = "response" /\ events[j].stage = 6
         /\ ~Yields(events[j].resp, "Failed")
         /\ ~Yields(events[j].resp, "Successful"))
        => IF j = Len(events)
           THEN pc = "poll" /\ exitCode = -1
           ELSE events[j + 1] = Sleep(PollSeconds)

\* C10: after a poll response that yields a state name other than Failed
\* and Successful the run still runs, the loop is at its next pass, and the
\* next events are the sleep and the next poll; a poll without a response
\* or a response without a state name ends the run with a non-zero status
C10_OtherStateNamePollsAgain ==
    \A j \in 1..Len(events) :
        (events[j].kind = "response" /\ events[j].stage = 6) =>
            IF NonTerminal(events[j].resp)
            THEN IF j = Len(events)
                 THEN /\ pc = "poll" /\ exitCode = -1
                      /\ PollCount < MaxPolls => ENABLED poll
                 ELSE /\ events[j + 1] = Sleep(PollSeconds)
                      /\ events[j + 2].kind = "request"
                      /\ events[j + 2].stage = 6
            ELSE /\ j = Len(events)
                 /\ pc \in {"bye", "exit"}
                 /\ (events[j].resp.err \/ ~events[j].resp.matched) =>
                        pc = "exit" /\ exitCode > 0

C10_Witness ==
    /\ PollCount = 2
    /\ events[Len(events)].kind = "response"
    /\ Yields(events[Len(events)].resp, "FAILED")
    /\ pc = "poll"

-----------------------------------------------------------------------------
Sleeps == SelectSeq(events, LAMBDA e : e.kind = "sleep")

\* a poll response that ends the loop: Successful or Failed
Terminal(r) == Yields(r, "Successful") \/ Yields(r, "Failed")

\* C11: every request of step 6 comes right after one sleep of 10 seconds,
\* and that sleep right after a response (of step 5 for the first poll, of
\* step 6 after that); every sleep is followed by its poll, and no sleep
\* comes after a response that yields Successful or Failed
C11_SleepBeforeEveryPoll ==
    /\ Len(Sleeps) = PollCount
    /\ \A i \in 1..Len(events) :
        /\ (events[i].kind = "request" /\ events[i].stage = 6) =>
                /\ i > 2
                /\ events[i - 1] = [kind |-> "sleep", seconds |-> 10]
                /\ events[i - 2].kind = "response"
                /\ events[i - 2].stage =
                        (IF \A j \in 1..(i - 1) : events[j].kind = "request"
                                                        => events[j].stage # 6
                         THEN 5 ELSE 6)
        /\ events[i].kind = "sleep" =>
                /\ i < Len(events)
                /\ events[i + 1].kind = "request" /\ events[i + 1].stage = 6
                /\ \A j \in 1..(i - 1) :
                        (events[j].kind = "response" /\ events[j].stage = 6)
                            => ~Terminal(events[j].resp)

C11_Witness ==
    /\ PollCount = 3
    /\ Len(Sleeps) = 3
    /\ Len(PollResponses) = 3
    /\ Terminal(PollResponses[3].resp)
    /\ pc = "exit"

\* every poll response so far yields a state name other than Successful
\* and Failed
AllNonTerminal ==
    \A i \in 1..Len(PollResponses) : NonTerminal(PollResponses[i].resp)

TerminalSeen ==
    \E i \in 1..Len(PollResponses) : Terminal(PollResponses[i].resp)

\* C12: as long as every poll response yields a non-terminal state name the
\* run has not ended and is in the loop, where the next poll is issued
\* whatever the number of polls so far (the bound of the model aside);
\* once a response yields Successful or Failed the run ends
C12_PollsUntilTerminal ==
    /\ []((PollResponses # <<>> /\ AllNonTerminal) =>
            /\ exitCode = -1
            /\ pc \in {"poll", "awaitStatus"}
            /\ Len(PollResponses) \in {PollCount - 1, PollCount}
            /\ (pc = "poll" /\ PollCount < MaxPolls) => ENABLED poll)
    /\ (TerminalSeen ~> (pc = "exit"))

C12_Witness ==
    /\ PollCount = MaxPolls
    /\ Len(PollResponses) = MaxPolls
    /\ AllNonTerminal
    /\ pc = "poll"

-----------------------------------------------------------------------------
\* the listing of step 2 has just been received and searched
ResourcesListed ==
    /\ events # <<>>
    /\ events[Len(events)].kind = "response"
    /\ events[Len(events)].stage = 2
    /\ ~response.err /\ response.status = 200

\* the name of an entry without its prefix of three characters
SansPrefix(name) == SubSeq(name, 4, Len(name))

\* the entry is a virtual machine of exactly the name asked for
IsTarget(entry) ==
    /\ entry.type = "Virtual Machine"
    /\ SansPrefix(entry.name) = machineName

NotFoundMsg ==
    <<"Error: Unable to find Catalog Resource id for virtual machine ">>
        \o machineName

\* C13: the entry step 2 selects from a listing is a virtual machine whose
\* name, its first three characters removed, is the machine name asked
\* for, character for character; the identifier kept is that of the entry
C13_SelectsOnlyEqualName ==
    ResourcesListed =>
        LET m == FindResource(machineName, response.entries, 1)
        IN  /\ m # 0 => IsTarget(response.entries[m])
            /\ virtualMachineID # <<>> =>
                    /\ m # 0
                    /\ virtualMachineID = response.entries[m].id

\* C14: when no entry of the listing is a virtual machine of exactly the
\* name asked for, the run has ended with a non-zero status and the not
\* found message naming the machine, so that no request follows step 2
C14_NoMatchIsNotFound ==
    (/\ ResourcesListed
     /\ \A i \in 1..Len(response.entries) : ~IsTarget(response.entries[i]))
    => /\ pc = "exit" /\ exitCode > 0
       /\ out[Len(out)] = NotFoundMsg
       /\ RequestsOf(3) = <<>> /\ RequestsOf(5) = <<>> /\ RequestsOf(6) = <<>>

-----------------------------------------------------------------------------
\* letter case folded
Lower(ch) ==
    CASE ch = "D" -> "d"
      [] ch = "B" -> "b"
      [] OTHER    -> ch

LowerAll(str) == [i \in 1..Len(str) |-> Lower(str[i])]

\* a virtual machine that step 2 could return and whose name is the name
\* asked for when letter case is left aside
IsTargetFolded(entry) ==
    /\ entry.type = "Virtual Machine"
    /\ CharCount(entry.id) = IDLength /\ ~Blank(entry.id)
    /\ LowerAll(SansPrefix(entry.name)) = LowerAll(machineName)

\* the listing holds the machine asked for up to letter case only
CaseOnlyMatch ==
    /\ ResourcesListed
    /\ \A i \in 1..Len(response.entries) : ~IsTarget(response.entries[i])
    /\ \E i \in 1..Len(response.entries) : IsTargetFolded(response.entries[i])

\* C15: a run given the ignore-case option is not turned away for it (it
\* ends before step 1 only for its configuration or a missing machine
\* name), and when the listing holds the machine up to letter case only,
\* step 2 returns an identifier if the option is set and ends the run with
\* the not found message if it is not
C15_IgnoreCaseDecidesLookup ==
    /\ (flags.ignoreCase /\ pc = "exit" /\ trail = <<>>) =>
            \/ cfgFile.stat # "file"
            \/ \E k \in ConfigKeys : Blank(Settings(cfgFile)[k])
            \/ ~flags.machineName.changed
    /\ CaseOnlyMatch =>
            IF flags.ignoreCase
            THEN pc # "exit" /\ virtualMachineID # <<>>
            ELSE pc = "exit" /\ exitCode > 0 /\ out[Len(out)] = NotFoundMsg

-----------------------------------------------------------------------------
\* the listing of step 3 has just been received and searched
ActionsListed ==
    /\ events # <<>>
    /\ events[Len(events)].kind = "response"
    /\ events[Len(events)].stage = 3
    /\ ~response.err /\ response.status = 200

IsSnapshotAction(entry) ==
    entry.name = "Create VM Snapshot" /\ entry.type = "ACTION"

\* C16: the identifier step 3 returns is that of an entry of the listing
\* that is itself named Create VM Snapshot and of type ACTION
C16_ReturnsSnapshotActionID ==
    ActionsListed =>
        LET m == FindAction(response.entries)
        IN  /\ m # 0 => IsSnapshotAction(response.entries[m])
            /\ snapshotActionID # <<>> =>
                    /\ m # 0
                    /\ snapshotActionID = response.entries[m].id

\* C17: when no entry of the listing is named Create VM Snapshot and of
\* type ACTION, the run has ended with a non-zero status and the request
\* of step 5 is never issued
C17_NoActionNoSubmission ==
    /\ (/\ ActionsListed
        /\ \A i \in 1..Len(response.entries) :
                ~IsSnapshotAction(response.entries[i]))
       => /\ pc = "exit" /\ exitCode > 0
          /\ snapshotActionID = <<>>
    /\ RequestsOf(5) # <<>> => snapshotActionID # <<>>

-----------------------------------------------------------------------------
\* the status each step goes on with
ExpectedStatus(stage) == IF stage = 5 THEN 201 ELSE 200

\* C18: a response of any step (1, 2, 3, 5, a poll of 6) with a status
\* other than the expected one is the last event of the run, which has
\* ended with a non-zero status
C18_UnexpectedStatusEndsRun ==
    \A j \in 1..Len(events) :
        (/\ events[j].kind = "response"
         /\ ~events[j].resp.err
         /\ events[j].resp.status # ExpectedStatus(events[j].stage))
        => /\ j = Len(events)
           /\ pc = "exit" /\ exitCode > 0

\* C19: a request that client.Do fails to send or to get an answer for is
\* the last request of the run: the error is the last event, the run has
\* ended with a non-zero status, and the step has set no result
C19_TransportErrorEndsRun ==
    \A j \in 1..Len(events) :
        (events[j].kind = "response" /\ events[j].resp.err)
        => /\ j = Len(events)
           /\ events[j - 1].kind = "request"
           /\ Len(RequestsOf(events[j].stage)) =
                    Len(ResponsesOf(events[j].stage))
           /\ pc = "exit" /\ exitCode > 0
           /\ events[j].stage < 6 => ~StageCompleted(events[j].stage)

C19_Witness ==
    /\ PollCount = 2
    /\ events[Len(events)].kind = "response"
    /\ events[Len(events)].resp.err
    /\ pc = "exit"

\* C20: after a response of step 5 with status 201, a Location that is
\* absent, empty or white space ends the run with a non-zero status
\* before any poll; any other Location is the status URL of the run and
\* the URL of every poll
C20_LocationIsStatusURL ==
    \A j \in 1..Len(events) :
        (/\ events[j].kind = "response" /\ events[j].stage = 5
         /\ ~events[j].resp.err /\ events[j].resp.status = 201)
        => IF Blank(events[j].resp.location)
           THEN /\ j = Len(events)
                /\ pc = "exit" /\ exitCode > 0
                /\ requestStatusURL = <<>>
                /\ RequestsOf(6) = <<>>
           ELSE /\ requestStatusURL = events[j].resp.location
                /\ \A i \in 1..Len(RequestsOf(6)) :
                        RequestsOf(6)[i].url = events[j].resp.location

C20_Witness ==
    /\ events # <<>>
    /\ events[Len(events)].kind = "response"
    /\ events[Len(events)].stage = 5
    /\ events[Len(events)].resp.status = 201
    /\ events[Len(events)].resp.location = <<" ">>
    /\ pc = "exit" /\ exitCode = 1

-----------------------------------------------------------------------------
\* the responses of step 1 with status 200 and a body that parses
TokenGranted(e) ==
    /\ e.kind = "response" /\ e.stage = 1
    /\ ~e.resp.err /\ e.resp.status = 200 /\ e.resp.json

\* C21: after a response of step 1 with status 200 whose token id is empty
\* or white space the run has ended with a non-zero status; the request of
\* step 1 is the only request of the run and no token is kept
C21_BlankTokenEndsRun ==
    \A j \in 1..Len(events) :
        (TokenGranted(events[j]) /\ Blank(events[j].resp.id))
        => /\ j = Len(events)
           /\ pc = "exit" /\ exitCode > 0
           /\ bearerToken = <<>>
           /\ Len(Requests) = 1
           /\ \A k \in 2..6 : RequestsOf(k) = <<>>

C21_Witness ==
    /\ Len(events) = 2
    /\ TokenGranted(events[2])
    /\ events[2].resp.id = <<" ">>
    /\ pc = "exit" /\ exitCode = 1
    /\ out[Len(out)] = ZeroLengthMsg("bearerToken")

-----------------------------------------------------------------------------
\* the token ids step 1 was answered with
GrantedIDs ==
    {events[j].resp.id : j \in {i \in 1..Len(events) : TokenGranted(events[i])}}

\* C22: the request of step 1 has no Authorization header and is sent at
\* most once; every other request has the Authorization header Bearer
\* followed by the token id of the one response of step 1
C22_BearerOnLaterRequests ==
    /\ Len(RequestsOf(1)) <= 1
    /\ Cardinality(GrantedIDs) <= 1
    /\ \A i \in 1..Len(Requests) :
            LET req == Requests[i]
            IN  IF req.stage = 1
                THEN "Authorization" \notin DOMAIN req.headers
                ELSE /\ "Authorization" \in DOMAIN req.headers
                     /\ \E id \in GrantedIDs :
                            req.headers.Authorization = <<"Bearer ">> \o id

C22_Witness ==
    /\ PollCount = 2
    /\ Len(Requests) = 6
    /\ GrantedIDs = {<<"MTU1NjUz">>}

\* C23: every request of the run has the User-Agent header makeSnapShot
\* followed by the version number
C23_UserAgentOnEveryRequest ==
    \A i \in 1..Len(Requests) :
        /\ "UserAgent" \in DOMAIN Requests[i].headers
        /\ Requests[i].headers.UserAgent = <<"makeSnapShot ", "0.9.2">>

\* the domain in force: that of the --domain flag when given, else that
\* of the configuration file
ConfiguredDomain ==
    IF flags.domain.changed THEN flags.domain.value ELSE cfgFile.values.domain

\* C24: the body of the request of step 1 has the user name of the
\* configuration followed by @ and the domain in force, and the password
\* and the tenant of the configuration as they are
C24_UserAtDomain ==
    \A i \in 1..Len(RequestsOf(1)) :
        LET body == RequestsOf(1)[i].body
        IN  /\ body.username =
                    cfgFile.values.userName \o <<"@">> \o ConfiguredDomain
            /\ body.password = cfgFile.values.password
            /\ body.tenant = cfgFile.values.tenant

C24_Witness ==
    /\ Len(RequestsOf(1)) = 1
    /\ RequestsOf(1)[1].body.username = <<"albert", "@", "corp">>
    /\ cfgFile.values.domain = <<"vsphere.local">>

-----------------------------------------------------------------------------
Step3Line == <<"Step 3 - Get snapshot resource action ID for ">> \o machineName
Step4Line == <<"Step 4 - Get resource action template">>
Step5Line ==
    IF flags.dryRun
    THEN <<"Step 5 - Skipped because of dry-run">>
    ELSE <<"Step 5 - Send snapshot request for ">> \o machineName

\* the places of a line in the output
PlacesOf(line) == {i \in 1..Len(out) : out[i] = line}

\* C25: step 4 issues no request, receives nothing and leaves the token,
\* the resource id, the action id and the status URL as they are; with
\* trace set its line is written once, right after the line of step 3, and
\* the line that follows it is that of step 5 (the skip line on a dry run)
C25_TemplateStepOnlyTraces ==
    /\ [][(pc = "getResourceActionTemplate" /\ pc' # pc) =>
            /\ events' = events
            /\ response' = response
            /\ locals' = locals
            /\ exitCode' = exitCode
            /\ out' = IF flags.trace THEN Append(out, Step4Line) ELSE out]_vars
    /\ []((flags.trace /\ 4 \in {trail[i] : i \in 1..Len(trail)}) =>
            /\ Cardinality(PlacesOf(Step4Line)) = 1
            /\ \A i \in PlacesOf(Step4Line) :
                    /\ i > 1 /\ out[i - 1] = Step3Line
                    /\ i < Len(out) => out[i + 1] = Step5Line)

C25_Witness ==
    /\ flags.trace /\ flags.dryRun
    /\ pc = "exit" /\ exitCode = 0
    /\ Cardinality(PlacesOf(Step4Line)) = 1
    /\ Cardinality(PlacesOf(Step5Line)) = 1

-----------------------------------------------------------------------------
\* how the lines written through traceInfo begin
StepDescriptions ==
    {"Using config file:", "Creating snapshot of virtual machine ",
     "Step 1 - Get bearer token",
     "Step 2 - Get virtual machine resource ID for ",
     "Step 3 - Get snapshot resource action ID for ",
     "Step 4 - Get resource action template",
     "Step 5 - Send snapshot request for ",
     "Step 5 - Skipped because of dry-run",
     "Step 6 - Skipped because of dry-run",
     "Step 6 - Get snapshot request status...",
     "Step 6 - Snapshot request status: ",
     "Bye from makeSnapshot"}

\* how the messages of an error begin: log.Fatalf and log.Println of an
\* error, the error of rootCmd.Execute, the report of a panic
Diagnostics ==
    {"Error: ", "Error: zero-length string ",
     "Error: Unable to find configfile ",
     "Error: Unexpected HTTP response status code ",
     "Error: Unable to find Catalog Resource id for virtual machine ",
     "Error: Unable to find Create Snapshot Action id",
     "Error: Snapshot request failed, check the vRA portal for more info",
     "Failure : ", "panic: ",
     "required flag(s) machineName not set",
     "unknown shorthand flag: i in -i"}

\* C26: with trace not set no step description is ever written, and
\* nothing at all unless the run ends with an error; a run that ends with
\* a non-zero status has written a diagnostic as its last line, whatever
\* the trace flag
C26_TraceGatesStepsOnly ==
    /\ ~flags.trace =>
            /\ \A i \in 1..Len(out) : Head(out[i]) \notin StepDescriptions
            /\ exitCode <= 0 => out = <<>>
    /\ (pc = "exit" /\ exitCode > 0) =>
            /\ out # <<>>
            /\ Head(out[Len(out)]) \in Diagnostics

C26_Witness ==
    /\ ~flags.trace
    /\ pc = "exit" /\ exitCode = 1
    /\ PollCount = 2
    /\ Len(out) = 1

-----------------------------------------------------------------------------
ResourcesPath == <<"/catalog-service/api/consumer/resources/">>

\* the Location values of the responses of step 5 with status 201
StatusLocations ==
    {events[j].resp.location :
        j \in {i \in 1..Len(events) :
                  /\ events[i].kind = "response" /\ events[i].stage = 5
                  /\ ~events[i].resp.err /\ events[i].resp.status = 201}}

\* C27: a result of a step, once returned, stays as it is; the URL of
\* step 3 holds the resource id step 2 returned, the URL of step 5 that
\* id and the action id step 3 returned, and every poll goes to the one
\* Location step 5 was answered with
C27_IdentifiersFlowUnchanged ==
    /\ [][/\ virtualMachineID # <<>> => virtualMachineID' = virtualMachineID
          /\ snapshotActionID # <<>> => snapshotActionID' = snapshotActionID
          /\ requestStatusURL # <<>> => requestStatusURL' = requestStatusURL]_vars
    /\ [](/\ \A i \in 1..Len(RequestsOf(3)) :
                /\ virtualMachineID # <<>>
                /\ RequestsOf(3)[i].url =
                        cfgFile.values.baseURL \o ResourcesPath
                            \o virtualMachineID \o <<"/actions/">>
          /\ \A i \in 1..Len(RequestsOf(5)) :
                /\ virtualMachineID # <<>> /\ snapshotActionID # <<>>
                /\ RequestsOf(5)[i].url =
                        cfgFile.values.baseURL \o ResourcesPath
                            \o virtualMachineID \o <<"/actions/">>
                            \o snapshotActionID \o <<"/requests/">>
          /\ \A i \in 1..Len(RequestsOf(6)) :
                /\ StatusLocations = {requestStatusURL}
                /\ RequestsOf(6)[i].url = requestStatusURL)

C27_Witness ==
    /\ PollCount = 3
    /\ virtualMachineID = <<"fcf490d5-a7e9-4640-be83-ac74d4484c91">>
    /\ snapshotActionID = <<"act-2">>
    /\ requestStatusURL = GoodLocation

\* the entries of the listing that the pattern of step 2 matches
MatchingPlaces ==
    {i \in 1..Len(response.entries) :
        ResourceMatches(machineName, response.entries[i])}

\* the first of a non-empty set of places
First(places) == CHOOSE i \in places : \A k \in places : i <= k

\* C28 as claimed: when the pattern of step 2 matches several entries of
\* the listing, step 2 does not fail and returns the identifier of the
\* first of them
C28_SeveralMatchesNeverFail ==
    (ResourcesListed /\ Cardinality(MatchingPlaces) >= 2)
    => /\ pc = "getSnapshotResourceActionID"
       /\ exitCode = -1
       /\ virtualMachineID = response.entries[First(MatchingPlaces)].id

\* C28: when the pattern of step 2 (type, name and an identifier of 36
\* characters) matches several entries of the listing, step 2 takes the
\* first of them: it returns its identifier and the run goes on, or, when
\* that identifier is blank, ends the run with the zero-length message;
\* the request of step 5 is for the resource step 2 returned
C28_FirstOfSeveralMatches ==
    /\ (ResourcesListed /\ Cardinality(MatchingPlaces) >= 2) =>
            LET first == response.entries[First(MatchingPlaces)]
            IN  IF Blank(first.id)
                THEN /\ pc = "exit" /\ exitCode = 1
                     /\ out[Len(out)] = ZeroLengthMsg("machineID")
                     /\ virtualMachineID = <<>>
                ELSE /\ pc = "getSnapshotResourceActionID"
                     /\ exitCode = -1
                     /\ virtualMachineID = first.id
    /\ \A i \in 1..Len(RequestsOf(5)) :
            SubSeq(RequestsOf(5)[i].url, 3, 3) = virtualMachineID

C28_Witness ==
    /\ ResourcesListed
    /\ MatchingPlaces = {1, 2}
    /\ response.entries[1].id # response.entries[2].id
    /\ virtualMachineID = response.entries[1].id

-----------------------------------------------------------------------------
\* a regular file was at the path before the command did anything there
ExistingFile == disk.stat = "file" /\ fileOps = <<>>

\* C29: a regular file found at the path is never created over nor
\* written to: the file system keeps it as it is and no operation on the
\* path is attempted; the command logs the Unable to create message, and
\* nothing else, and ends
C29_ExistingFileUntouched ==
    /\ [][ExistingFile => (disk' = disk /\ fileOps' = fileOps)]_vars
    /\ [](ExistingFile =>
            /\ pc \in {"generateConfig", "exit"}
            /\ pc = "exit" => out = <<UnableToCreateMsg>>)

C29_Witness ==
    /\ pc = "exit"
    /\ disk = [stat |-> "file", content |-> << <<"baseURL: ", "https://vra">> >>]
    /\ fileOps = <<>>
    /\ out = <<UnableToCreateMsg>>

\* the writes that succeeded
WritesDone ==
    Len(SelectSeq(fileOps, LAMBDA o : o.op = "write" /\ o.ok))

\* C30: the Created config file line is logged only when os.Create
\* succeeded and every line was written; when a file or a directory was
\* at the path, or os.Create failed, the command ends with an error logged
\* and without that line
C30_CreatedOnlyWhenWritten ==
    /\ (\E i \in 1..Len(out) : out[i] = CreatedMsg) =>
            /\ FileOpen
            /\ WritesDone = Len(SampleLines)
            /\ disk = [stat |-> "file", content |-> SampleLines]
    /\ (pc = "exit" /\ (ExistingFile \/ disk.stat = "dir" \/ ~FileOpen)) =>
            /\ out # <<>>
            /\ Head(out[1]) \in {"Error: ", "Error: Unable to create ", "panic: "}
            /\ \A i \in 1..Len(out) : out[i] # CreatedMsg

====
